---- MODULE Spec2Model ----
(***************************************************************************)
(* Model of presentation_to_anki.py: DeepSeekEnhancedConverter.            *)
(*                                                                         *)
(* Text is a sequence of symbols.  A symbol is one character, except the   *)
(* words "question", "answer", "slide", "context" and "null", which are    *)
(* kept as one symbol each where the program matches them as literals.     *)
(* Python values are tagged records [t, v]: t is the Python type, v the    *)
(* payload (a text for str and int, a sequence for list, a function from   *)
(* key texts to values for dict).                                          *)
(***************************************************************************)
EXTENDS Integers, Sequences, FiniteSets, TLC

(***************************************************************************)
(* Character classes of the re module                                      *)
(***************************************************************************)
DQ == "\""
SQ == "'"
NL == "\n"
Digits == {"0", "1", "2", "3", "4", "5", "6", "7", "8", "9"}
Letters == {"a", "b", "c", "d", "e", "f", "g", "h", "i", "j", "k", "l", "m",
            "n", "o", "p", "q", "r", "s", "t", "u", "v", "w", "x", "y", "z",
            "A", "B", "C", "D", "E", "F", "G", "H", "I", "J", "K", "L", "M",
            "N", "O", "P", "Q", "R", "S", "T", "U", "V", "W", "X", "Y", "Z",
            "_", "question", "answer", "slide", "context", "null"}
WordChars == Letters \cup Digits
Space == {" ", NL}
Quotes == {DQ, SQ}

\* One regex item: a character class (set, or its complement when neg) with a
\* repetition range min..max (max = -1: no upper limit), greedy or lazy; eol is
\* the anchor $.
Item(neg, set, min, max, lazy) ==
    [neg |-> neg, set |-> set, min |-> min, max |-> max, lazy |-> lazy, eol |-> FALSE]
One(set)      == Item(FALSE, set, 1, 1, FALSE)
Opt(set)      == Item(FALSE, set, 0, 1, FALSE)
Star(set)     == Item(FALSE, set, 0, -1, FALSE)
Plus(set)     == Item(FALSE, set, 1, -1, FALSE)
StarNot(set)  == Item(TRUE, set, 0, -1, FALSE)
PlusNot(set)  == Item(TRUE, set, 1, -1, FALSE)
LazyStarNot(set) == Item(TRUE, set, 0, -1, TRUE)
LazyPlusNot(set) == Item(TRUE, set, 1, -1, TRUE)
EndAnchor     == [neg |-> FALSE, set |-> {}, min |-> 0, max |-> 0, lazy |-> FALSE, eol |-> TRUE]

InClass(c, it) == IF it.neg THEN c \notin it.set ELSE c \in it.set

\* The number of consecutive symbols of s from position i that item it can take.
Run(s, i, it) ==
    LET room == Len(s) + 1 - i
        lim == IF it.max < 0 \/ it.max > room THEN room ELSE it.max
    IN  CHOOSE c \in 0..lim :
            /\ \A q \in 0..(c - 1) : InClass(s[i + q], it)
            /\ (c = lim \/ ~InClass(s[i + c], it))

\* The element of a one-element set.  {F(v) : v \in {e}} evaluates e once and
\* hands F its value.
Only(S) == CHOOSE x \in S : TRUE

\* Of the pairs <<count, match of the rest>> the one the re module finds first:
\* the longest count for a greedy item, the shortest for a lazy one.
Preferred(found, lazy) ==
    CHOOSE t \in found :
        \A u \in found : IF lazy THEN t[1] <= u[1] ELSE t[1] >= u[1]

\* Backtracking match of the items pat[k..] at position i of s: the sequence of
\* positions where each item starts, followed by the position after the match;
\* <<>> when there is no match.  An item takes the first count, in the order
\* the re module tries them, after which the rest of the pattern matches.
RECURSIVE MatchFrom(_, _, _, _)
MatchFrom(pat, k, s, i) ==
    IF k > Len(pat) THEN <<i>>
    ELSE IF pat[k].eol
    THEN IF i = Len(s) + 1 \/ (i = Len(s) /\ s[i] = NL)
         THEN Only({ IF r = <<>> THEN <<>> ELSE <<i>> \o r :
                     r \in {MatchFrom(pat, k + 1, s, i)} })
         ELSE <<>>
    ELSE Only({ IF found = {} THEN <<>>
                ELSE <<i>> \o Preferred(found, pat[k].lazy)[2] :
                found \in { { t \in { <<j, MatchFrom(pat, k + 1, s, i + j)>> :
                                      j \in pat[k].min..Run(s, i, pat[k]) } :
                              t[2] # <<>> } } })

\* re.match: the pattern at the start of s.
ReMatch(pat, s) == MatchFrom(pat, 1, s, 1)

\* re.search from position i: the leftmost match.
ReSearch(pat, s, i) ==
    Only({ IF found = {} THEN <<>>
           ELSE CHOOSE m \in found : \A u \in found : m[1] <= u[1] :
           found \in { { m \in { MatchFrom(pat, 1, s, p) : p \in i..(Len(s) + 1) } :
                         m # <<>> } } })

MatchStart(m) == m[1]
MatchEnd(m) == m[Len(m)]
\* The text the k-th item of the pattern took in match m.
Group(s, m, k) == SubSeq(s, m[k], m[k + 1] - 1)

\* re.findall / re.sub: the non-overlapping matches, left to right.
RECURSIVE ReFindAll(_, _, _)
ReFindAll(pat, s, i) ==
    Only({ IF m = <<>> THEN <<>>
           ELSE <<m>> \o Only({ ReFindAll(pat, s, i1) :
                    i1 \in { IF MatchEnd(m) = MatchStart(m) THEN MatchEnd(m) + 1
                                                            ELSE MatchEnd(m) } }) :
           m \in {ReSearch(pat, s, i)} })

\* A replacement template: literal text and references to the text an item took.
Lit(text) == [lit |-> text, grp |-> 0]
Ref(k) == [lit |-> <<>>, grp |-> k]
\* The replacement of match m of s that template repl stands for.
RECURSIVE Expand(_, _, _)
Expand(repl, s, m) ==
    IF repl = <<>> THEN <<>>
    ELSE (IF Head(repl).grp > 0 THEN Group(s, m, Head(repl).grp) ELSE Head(repl).lit)
         \o Expand(Tail(repl), s, m)
\* re.sub(pat, repl, s): the matches ms replaced, the text from i on.
RECURSIVE ReSubFrom(_, _, _, _)
ReSubFrom(repl, s, ms, i) ==
    IF ms = <<>> THEN SubSeq(s, i, Len(s))
    ELSE SubSeq(s, i, MatchStart(Head(ms)) - 1) \o Expand(repl, s, Head(ms))
         \o ReSubFrom(repl, s, Tail(ms), MatchEnd(Head(ms)))
ReSub(pat, repl, s) == ReSubFrom(repl, s, ReFindAll(pat, s, 1), 1)

(***************************************************************************)
(* str methods                                                             *)
(***************************************************************************)
RECURSIVE LStrip(_)
LStrip(s) == IF s # <<>> /\ Head(s) \in Space THEN LStrip(Tail(s)) ELSE s
RECURSIVE RStrip(_)
RStrip(s) ==
    IF s # <<>> /\ s[Len(s)] \in Space THEN RStrip(SubSeq(s, 1, Len(s) - 1)) ELSE s
\* str.strip()
Strip(s) == RStrip(LStrip(s))

\* str.split('\n'): always at least one (possibly empty) piece.
RECURSIVE SplitLines(_, _)
SplitLines(s, cur) ==
    IF s = <<>> THEN <<cur>>
    ELSE IF Head(s) = NL THEN <<cur>> \o SplitLines(Tail(s), <<>>)
    ELSE SplitLines(Tail(s), Append(cur, Head(s)))
Split(s) == SplitLines(s, <<>>)

\* '\n'.join(lines)
RECURSIVE Join(_)
Join(lines) ==
    IF lines = <<>> THEN <<>>
    ELSE IF Len(lines) = 1 THEN lines[1]
    ELSE lines[1] \o <<NL>> \o Join(Tail(lines))

\* str(n) of a non-negative integer
RECURSIVE DecStr(_)
DecStr(n) ==
    LET d == <<"0", "1", "2", "3", "4", "5", "6", "7", "8", "9">>
    IN  IF n < 10 THEN <<d[n + 1]>> ELSE DecStr(n \div 10) \o <<d[(n % 10) + 1]>>

(***************************************************************************)
(* Python values and json.loads                                            *)
(***************************************************************************)
PyNone == [t |-> "none", v |-> <<>>]
PyStr(s) == [t |-> "str", v |-> s]
PyInt(s) == [t |-> "int", v |-> s]
PyList(xs) == [t |-> "list", v |-> xs]
PyDict(f) == [t |-> "dict", v |-> f]

EmptyDict == <<>>
\* d[k] = v on a dict
DictSet(d, k, v) == [x \in (DOMAIN d) \cup {k} |-> IF x = k THEN v ELSE d[x]]

\* A parse step: ok, the value read, and the position after it.
JFail == [ok |-> FALSE, val |-> PyNone, pos |-> 0]
JOk(val, pos) == [ok |-> TRUE, val |-> val, pos |-> pos]

RECURSIVE SkipWs(_, _)
SkipWs(s, i) == IF i <= Len(s) /\ s[i] \in Space THEN SkipWs(s, i + 1) ELSE i

\* A JSON string at s[i] = '"': symbols up to the closing quote; a raw newline
\* inside a string is a control character and is rejected.
RECURSIVE JString(_, _, _)
JString(s, i, acc) ==
    IF i > Len(s) \/ s[i] = NL THEN JFail
    ELSE IF s[i] = DQ THEN JOk(PyStr(acc), i + 1)
    ELSE JString(s, i + 1, Append(acc, s[i]))

RECURSIVE JValue(_, _), JArrayRest(_, _, _), JObjectRest(_, _, _)
\* A JSON value at position i (whitespace is skipped by the callers).
JValue(s, i) ==
    IF i > Len(s) THEN JFail
    ELSE IF s[i] = DQ THEN JString(s, i + 1, <<>>)
    ELSE IF s[i] \in Digits
    THEN LET n == Run(s, i, Plus(Digits))
         IN  IF s[i] = "0" /\ n > 1 THEN JOk(PyInt(<<"0">>), i + 1)
             ELSE JOk(PyInt(SubSeq(s, i, i + n - 1)), i + n)
    ELSE IF s[i] = "null" THEN JOk(PyNone, i + 1)
    ELSE IF s[i] = "["
    THEN LET j == SkipWs(s, i + 1)
         IN  IF j <= Len(s) /\ s[j] = "]" THEN JOk(PyList(<<>>), j + 1)
             ELSE JArrayRest(s, j, <<>>)
    ELSE IF s[i] = "{"
    THEN LET j == SkipWs(s, i + 1)
         IN  IF j <= Len(s) /\ s[j] = "}" THEN JOk(PyDict(EmptyDict), j + 1)
             ELSE JObjectRest(s, j, EmptyDict)
    ELSE JFail
\* The elements of an array from position i (at the start of an element).
JArrayRest(s, i, acc) ==
    LET e == JValue(s, i)
    IN  IF ~e.ok THEN JFail
        ELSE LET j == SkipWs(s, e.pos)
             IN  IF j > Len(s) THEN JFail
                 ELSE IF s[j] = "]" THEN JOk(PyList(Append(acc, e.val)), j + 1)
                 ELSE IF s[j] = "," THEN JArrayRest(s, SkipWs(s, j + 1), Append(acc, e.val))
                 ELSE JFail
\* The members of an object from position i (at the start of a key).
JObjectRest(s, i, acc) ==
    IF i > Len(s) \/ s[i] # DQ THEN JFail
    ELSE LET k == JString(s, i + 1, <<>>)
         IN  IF ~k.ok THEN JFail
             ELSE LET c == SkipWs(s, k.pos)
                  IN  IF c > Len(s) \/ s[c] # ":" THEN JFail
                      ELSE LET e == JValue(s, SkipWs(s, c + 1))
                           IN  IF ~e.ok THEN JFail
                               ELSE LET j == SkipWs(s, e.pos)
                                        d == DictSet(acc, k.val.v, e.val)
                                    IN  IF j > Len(s) THEN JFail
                                        ELSE IF s[j] = "}" THEN JOk(PyDict(d), j + 1)
                                        ELSE IF s[j] = ","
                                        THEN JObjectRest(s, SkipWs(s, j + 1), d)
                                        ELSE JFail

\* json.loads(text): ok is FALSE where json.loads raises JSONDecodeError
\* (no value, or extra data after it).
JsonLoads(s) ==
    LET r == JValue(s, SkipWs(s, 1))
    IN  IF r.ok /\ SkipWs(s, r.pos) = Len(s) + 1 THEN r ELSE JFail


(***************************************************************************)
(* extract_from_pdf: page texts to slides                                  *)
(***************************************************************************)
MkSlide(title, content, n) == [title |-> title, content |-> content, slide_num |-> n]

NonBlank(line) == Strip(line) # <<>>

\* The PyMuPDF branch: blank lines are dropped, the first remaining line is the
\* title, the others the content.
SlideFromPyMuPDF(text, n) ==
    LET clean_lines == SelectSeq(Split(text), NonBlank)
    IN  IF clean_lines # <<>>
        THEN MkSlide(Strip(clean_lines[1]), Strip(Join(Tail(clean_lines))), n)
        ELSE MkSlide(<<>>, <<>>, n)

\* The PyPDF2 branch (taken on ImportError): the first line is the title even
\* when it is blank.
SlideFromPyPDF2(text, n) ==
    LET lines == Split(text)
    IN  MkSlide(Strip(lines[1]), Strip(Join(Tail(lines))), n)

extract_from_pdf(lib, texts) ==
    [i \in 1..Len(texts) |->
        IF lib = "pymupdf" THEN SlideFromPyMuPDF(texts[i], i)
                           ELSE SlideFromPyPDF2(texts[i], i)]

(***************************************************************************)
(* clean_slide_content                                                     *)
(***************************************************************************)
\* r"\w+ \d+, \d{4} .+ \d+"
DatePattern ==
    << Plus(WordChars), One({" "}), Plus(Digits), One({","}), One({" "}),
       Item(FALSE, Digits, 4, 4, FALSE), One({" "}), PlusNot({NL}), One({" "}),
       Plus(Digits) >>
\* r"^\d+$"
NumberPattern == << Plus(Digits), EndAnchor >>
\* r"Slide \d+"
SlidePattern ==
    << One({"S"}), One({"l"}), One({"i"}), One({"d"}), One({"e"}), One({" "}),
       Plus(Digits) >>
header_patterns == << DatePattern, NumberPattern, SlidePattern >>

\* The body of the if: the first content line becomes the title when it is
\* not blank.
PromoteFirstLine(title, content) ==
    LET content_lines == Split(content)
    IN  IF Strip(content_lines[1]) # <<>>
        THEN [title |-> Strip(content_lines[1]),
              content |-> Strip(Join(Tail(content_lines)))]
        ELSE [title |-> title, content |-> content]

\* The for loop without its break: the later patterns are tried on the new title.
RECURSIVE CleanLoopNoBreak(_, _, _)
CleanLoopNoBreak(title, content, k) ==
    IF k > Len(header_patterns) THEN [title |-> title, content |-> content]
    ELSE IF ReMatch(header_patterns[k], title) # <<>>
    THEN CleanLoopNoBreak(PromoteFirstLine(title, content).title,
                          PromoteFirstLine(title, content).content, k + 1)
    ELSE CleanLoopNoBreak(title, content, k + 1)
\* The for loop over header_patterns from pattern k on, with its break.
RECURSIVE CleanLoop(_, _, _)
CleanLoop(title, content, k) ==
    IF k > Len(header_patterns) THEN [title |-> title, content |-> content]
    ELSE IF ReMatch(header_patterns[k], title) # <<>>
    THEN PromoteFirstLine(title, content)
    ELSE CleanLoop(title, content, k + 1)

clean_slide_content(slide) ==
    LET r == CleanLoop(slide.title, slide.content, 1)
    IN  MkSlide(r.title, r.content, slide.slide_num)

(***************************************************************************)
(* _ask_ai_for_cards                                                       *)
(***************************************************************************)
KQuestion == <<"question">>
KAnswer == <<"answer">>
KSlide == <<"slide">>
KContext == <<"context">>

\* {"question": q, "answer": a}
QA(q, a) == PyDict((KQuestion :> PyStr(q)) @@ (KAnswer :> PyStr(a)))

\* r'\[\s*\{.*\}\s*\]' with re.DOTALL
JsonArrayPattern ==
    << One({"["}), Star(Space), One({"{"}), StarNot({}), One({"}"}), Star(Space),
       One({"]"}) >>
\* r'(\w+):' -> r'"\1":'
KeyPattern == << Plus(WordChars), One({":"}) >>
QuoteKey == << Lit(<<DQ>>), Ref(1), Lit(<<DQ, ":">>) >>
\* r':\s*"([^"]*)"' -> r': "\1"'
ValuePattern == << One({":"}), Star(Space), One({DQ}), StarNot({DQ}), One({DQ}) >>
SpaceValue == << Lit(<<":", " ", DQ>>), Ref(4), Lit(<<DQ>>) >>

\* The two repairs of the bracketed substring.
RepairJson(json_str) == ReSub(ValuePattern, SpaceValue, ReSub(KeyPattern, QuoteKey, json_str))

\* The inner try: the first bracketed object-array substring, repaired and
\* parsed; ok is FALSE when there is none or it does not parse.
ExtractJsonArray(cards_text) ==
    LET json_pattern == ReSearch(JsonArrayPattern, cards_text, 1)
    IN  IF json_pattern # <<>>
        THEN JsonLoads(RepairJson(SubSeq(cards_text, MatchStart(json_pattern),
                                         MatchEnd(json_pattern) - 1)))
        ELSE JFail

\* r'["\']{0,1}question["\']{0,1}\s*:\s*["\'](.*?)["\']\s*,\s*
\*   ["\']{0,1}answer["\']{0,1}\s*:\s*["\'](.*?)["\']' with re.DOTALL
QaPairPattern ==
    << Opt(Quotes), One({"question"}), Opt(Quotes), Star(Space), One({":"}),
       Star(Space), One(Quotes), LazyStarNot({}), One(Quotes), Star(Space),
       One({","}), Star(Space), Opt(Quotes), One({"answer"}), Opt(Quotes),
       Star(Space), One({":"}), Star(Space), One(Quotes), LazyStarNot({}),
       One(Quotes) >>
\* The paired scan: one card per match, question and answer stripped.
PairedScan(cards_text) ==
    LET qa_pairs == ReFindAll(QaPairPattern, cards_text, 1)
    IN  [i \in 1..Len(qa_pairs) |->
            QA(Strip(Group(cards_text, qa_pairs[i], 8)),
               Strip(Group(cards_text, qa_pairs[i], 20)))]

\* r'question["\']?:[\s"\']*(.+?)[\s"\']*,'
QBlockPattern ==
    << One({"question"}), Opt(Quotes), One({":"}), Star(Space \cup Quotes),
       LazyPlusNot({NL}), Star(Space \cup Quotes), One({","}) >>
\* r'answer["\']?:[\s"\']*(.+?)[\s"\']*[},]'
ABlockPattern ==
    << One({"answer"}), Opt(Quotes), One({":"}), Star(Space \cup Quotes),
       LazyPlusNot({NL}), Star(Space \cup Quotes), One({"}", ","}) >>
\* re.sub(r'["\']', '', s)
DropQuotes(s) == SelectSeq(s, LAMBDA c : c \notin Quotes)
Min(a, b) == IF a < b THEN a ELSE b
\* The lenient scan: question fragments and answer fragments zipped by position.
LenientScan(cards_text) ==
    LET q_blocks == ReFindAll(QBlockPattern, cards_text, 1)
        a_blocks == ReFindAll(ABlockPattern, cards_text, 1)
    IN  [i \in 1..Min(Len(q_blocks), Len(a_blocks)) |->
            QA(Strip(DropQuotes(Group(cards_text, q_blocks[i], 5))),
               Strip(DropQuotes(Group(cards_text, a_blocks[i], 5))))]

\* [{"question": "Review this slide", "answer": slide_text}]
ReviewQuestion ==
    <<"R", "e", "v", "i", "e", "w", " ", "t", "h", "i", "s", " ", "slide">>
ReviewCard(slide_text) == QA(ReviewQuestion, slide_text)

\* The manual extraction with the response text echoed in the review card.
ManualExtractionEchoResponse(slide_text, cards_text) ==
    IF PairedScan(cards_text) # <<>>
    THEN [cards |-> PyList(PairedScan(cards_text)), stages |-> <<1, 2, 3>>]
    ELSE IF LenientScan(cards_text) # <<>>
    THEN [cards |-> PyList(LenientScan(cards_text)), stages |-> <<1, 2, 3, 4>>]
    ELSE [cards |-> PyList(<<ReviewCard(cards_text)>>), stages |-> <<1, 2, 3, 4, 5>>]
\* The manual extraction after both parses failed: the paired scan, the lenient
\* scan only when the paired scan found nothing, the review card when both
\* found nothing.  stages lists the recovery stages that ran.
ManualExtraction(slide_text, cards_text) ==
    LET paired == PairedScan(cards_text)
    IN  IF paired # <<>>
        THEN [cards |-> PyList(paired), stages |-> <<1, 2, 3>>]
        ELSE LET lenient == LenientScan(cards_text)
             IN  IF lenient # <<>>
                 THEN [cards |-> PyList(lenient), stages |-> <<1, 2, 3, 4>>]
                 ELSE [cards |-> PyList(<<ReviewCard(slide_text)>>),
                       stages |-> <<1, 2, 3, 4, 5>>]

\* The processing with the bracketed-substring repair tried before the parse of
\* the whole text.
RecoverCardsRepairFirst(slide_text, cards_text) ==
    IF ExtractJsonArray(cards_text).ok
    THEN [cards |-> ExtractJsonArray(cards_text).val, stages |-> <<1, 2>>]
    ELSE IF JsonLoads(cards_text).ok
    THEN [cards |-> JsonLoads(cards_text).val, stages |-> <<1>>]
    ELSE ManualExtraction(slide_text, cards_text)
\* The processing of the response text (the try of lines 254-293).
RecoverCards(slide_text, cards_text) ==
    LET whole == JsonLoads(cards_text)
    IN  IF whole.ok THEN [cards |-> whole.val, stages |-> <<1>>]
        ELSE LET part == ExtractJsonArray(cards_text)
             IN  IF part.ok THEN [cards |-> part.val, stages |-> <<1, 2>>]
                 ELSE ManualExtraction(slide_text, cards_text)

\* One call: the client either raises (the exception leaves the function) or
\* returns the response text, from which the cards are recovered.
ClientRaises == [raised |-> TRUE, text |-> <<>>]
ClientReturns(text) == [raised |-> FALSE, text |-> text]
ask_ai_for_cards(slide_text, response) ==
    IF response.raised
    THEN [raised |-> TRUE, cards |-> PyNone, stages |-> <<>>]
    ELSE LET r == RecoverCards(slide_text, response.text)
         IN  [raised |-> FALSE, cards |-> r.cards, stages |-> r.stages]

(***************************************************************************)
(* generate_flashcards_with_deepseek, create_anki_deck                     *)
(***************************************************************************)
\* A retry limit that is one too large.
max_retries_off_by_one == 3 + 1
max_retries == 3

\* 'Title: '
TitlePrefix ==
    <<"T", "i", "t", "l", "e", ":", " ">>
\* '\n\nContent: '
ContentPrefix ==
    <<"\n", "\n", "C", "o", "n", "t", "e", "n", "t", ":", " ">>
\* f"Title: {title}\n\nContent: {content}"
FullText(slide) == TitlePrefix \o slide.title \o ContentPrefix \o slide.content

\* The gate with >= in place of >.
has_meaningful_content_inclusive(slide) ==
    Len(slide.title) >= 3 \/ Len(slide.content) >= 10
\* len(title) > 3 or len(content) > 10
has_meaningful_content(slide) == Len(slide.title) > 3 \/ Len(slide.content) > 10

\* f"Slide {slide_num}"
SlideLabel(n) == <<"S", "l", "i", "d", "e", " ">> \o DecStr(n)

\* The stamping without the slide label.
StampCardContextOnly(card, slide) ==
    PyDict(DictSet(card.v, KContext, PyStr(slide.title)))
\* card['slide'] = ...; card['context'] = ... on one item of the returned value.
StampCard(card, slide) ==
    PyDict(DictSet(DictSet(card.v, KSlide, PyStr(SlideLabel(slide.slide_num))),
                   KContext, PyStr(slide.title)))

\* The for loop over the returned value and all_cards.extend: the items added to
\* all_cards, or raised when the loop raises TypeError (the value is not
\* iterable, or an item does not take item assignment).
StampCards(cards, slide) ==
    IF cards.t = "list"
    THEN IF \A i \in 1..Len(cards.v) : cards.v[i].t = "dict"
         THEN [raised |-> FALSE,
               cards |-> [i \in 1..Len(cards.v) |-> StampCard(cards.v[i], slide)]]
         ELSE [raised |-> TRUE, cards |-> <<>>]
    ELSE IF cards.t = "dict" /\ DOMAIN cards.v = {}
    THEN [raised |-> FALSE, cards |-> <<>>]
    ELSE IF cards.t = "str" /\ cards.v = <<>>
    THEN [raised |-> FALSE, cards |-> <<>>]
    ELSE [raised |-> TRUE, cards |-> <<>>]

\* 'Explain the concept of: '
ExplainPrefix ==
    <<"E", "x", "p", "l", "a", "i", "n", " ", "t", "h", "e", " ", "c", "o",
      "n", "c", "e", "p", "t", " ", "o", "f", ":", " ">>
\* 'Review the slide content.'
ReviewTheSlide ==
    <<"R", "e", "v", "i", "e", "w", " ", "t", "h", "e", " ", "slide", " ",
      "c", "o", "n", "t", "e", "n", "t", ".">>
\* 'Auto-generated (DeepSeek API failed)'
AutoGenerated ==
    <<"A", "u", "t", "o", "-", "g", "e", "n", "e", "r", "a", "t", "e", "d", " ", "(", "D", "e", "e", "p", "S", "e", "e", "k", " ", "A", "P", "I", " ",
      "f", "a", "i", "l", "e", "d", ")">>
\* The basic card of lines 206-214.
FallbackCard(slide) ==
    PyDict((KQuestion :> PyStr(ExplainPrefix \o slide.title))
           @@ (KAnswer :> PyStr(IF slide.content # <<>> THEN slide.content
                                                       ELSE ReviewTheSlide))
           @@ (KSlide :> PyStr(SlideLabel(slide.slide_num)))
           @@ (KContext :> PyStr(AutoGenerated)))

\* The cards added after the retry loop: the basic card when every attempt
\* failed and the title is not empty.
FallbackCards(slide, ok) ==
    IF ~ok /\ slide.title # <<>> THEN <<FallbackCard(slide)>> ELSE <<>>

\* genanki.Note(fields=[question, answer, slide, context or ''])
NoteOf(card) ==
    << card.v[KQuestion], card.v[KAnswer], card.v[KSlide],
       IF KContext \in DOMAIN card.v THEN card.v[KContext] ELSE PyStr(<<>>) >>

\* The deck with the notes in reverse order.
create_anki_deck_reversed(cards) ==
    IF \A i \in 1..Len(cards) : {KQuestion, KAnswer, KSlide} \subseteq DOMAIN cards[i].v
    THEN [raised |-> FALSE,
          notes |-> [i \in 1..Len(cards) |-> NoteOf(cards[Len(cards) + 1 - i])]]
    ELSE [raised |-> TRUE, notes |-> <<>>]
\* create_anki_deck: the notes of the deck in order, or raised (KeyError) when a
\* card has no 'question', 'answer' or 'slide'.
create_anki_deck(cards) ==
    IF \A i \in 1..Len(cards) : {KQuestion, KAnswer, KSlide} \subseteq DOMAIN cards[i].v
    THEN [raised |-> FALSE, notes |-> [i \in 1..Len(cards) |-> NoteOf(cards[i])]]
    ELSE [raised |-> TRUE, notes |-> <<>>]

(***************************************************************************)
(* Inputs: page texts of the PDF and outcomes of the completion client     *)
(***************************************************************************)
MaxPages == 2

\* ''
PageEmpty ==
    <<>>
\* 'Heat'
PageTitleOnly ==
    <<"H", "e", "a", "t">>
\* 'abc\n0123456789'
PageShort ==
    <<"a", "b", "c", "\n", "0", "1", "2", "3", "4", "5", "6", "7", "8", "9">>
\* 'abc\n0123456789x'
PageLongContent ==
    <<"a", "b", "c", "\n", "0", "1", "2", "3", "4", "5", "6", "7", "8", "9",
      "x">>
\* '\nabcdefghijkl'
PageBlankFirst ==
    <<"\n", "a", "b", "c", "d", "e", "f", "g", "h", "i", "j", "k", "l">>
\* '12\nHeat\nxy'
PageNumbered ==
    <<"1", "2", "\n", "H", "e", "a", "t", "\n", "x", "y">>
\* 'Slide 3\nab'
PageSlideHeader ==
    <<"S", "l", "i", "d", "e", " ", "3", "\n", "a", "b">>
PageTexts ==
    {PageEmpty, PageTitleOnly, PageShort, PageLongContent, PageBlankFirst, PageNumbered, PageSlideHeader}
PageLists == UNION {[1..n -> PageTexts] : n \in 0..MaxPages}

\* '[{"question": "a", "answer": "b"}]'
RespValid ==
    <<"[", "{", "\"", "question", "\"", ":", " ", "\"", "a", "\"", ",", " ",
      "\"", "answer", "\"", ":", " ", "\"", "b", "\"", "}", "]">>
\* '[]'
RespEmptyArray ==
    <<"[", "]">>
\* '[{"a": "b"}]'
RespNoKeys ==
    <<"[", "{", "\"", "a", "\"", ":", " ", "\"", "b", "\"", "}", "]">>
\* '[5]'
RespNumbers ==
    <<"[", "5", "]">>
\* 'null'
RespNull ==
    <<"null">>
\* '{"question": "a"}'
RespObject ==
    <<"{", "\"", "question", "\"", ":", " ", "\"", "a", "\"", "}">>
\* '{}'
RespEmptyObject ==
    <<"{", "}">>
\* 'x [{"question": "a", "answer": "b"}]'
RespProseArray ==
    <<"x", " ", "[", "{", "\"", "question", "\"", ":", " ", "\"", "a", "\"",
      ",", " ", "\"", "answer", "\"", ":", " ", "\"", "b", "\"", "}", "]">>
\* '[{question: "a", answer: "b"}]'
RespBareKeys ==
    <<"[", "{", "question", ":", " ", "\"", "a", "\"", ",", " ", "answer",
      ":", " ", "\"", "b", "\"", "}", "]">>
\* 'x [{"question": "a: b", "answer": "b"}]'
RespProseColon ==
    <<"x", " ", "[", "{", "\"", "question", "\"", ":", " ", "\"", "a", ":", " ", "b", "\"", ",", " ", "\"", "answer", "\"", ":", " ", "\"", "b", "\"",
      "}", "]">>
\* '[{"question": "a: b", "answer": "b"}]'
RespColon ==
    <<"[", "{", "\"", "question", "\"", ":", " ", "\"", "a", ":", " ", "b",
      "\"", ",", " ", "\"", "answer", "\"", ":", " ", "\"", "b", "\"", "}",
      "]">>
\* 'question: a, answer: b}'
RespUnquoted ==
    <<"question", ":", " ", "a", ",", " ", "answer", ":", " ", "b", "}">>
\* 'x y'
RespProse ==
    <<"x", " ", "y">>
\* '[{"question": "a", "answer": "b"}, 5]'
RespMixed ==
    <<"[", "{", "\"", "question", "\"", ":", " ", "\"", "a", "\"", ",", " ",
      "\"", "answer", "\"", ":", " ", "\"", "b", "\"", "}", ",", " ", "5",
      "]">>
\* 'x [{"a": "b"}]'
RespProseNoKeys ==
    <<"x", " ", "[", "{", "\"", "a", "\"", ":", " ", "\"", "b", "\"", "}",
      "]">>
\* '[{"question": "a", "answer": "b"}, {"question": "x", "answer": "y"}]'
RespTwo ==
    <<"[", "{", "\"", "question", "\"", ":", " ", "\"", "a", "\"", ",", " ",
      "\"", "answer", "\"", ":", " ", "\"", "b", "\"", "}", ",", " ", "{",
      "\"", "question", "\"", ":", " ", "\"", "x", "\"", ",", " ", "\"",
      "answer", "\"", ":", " ", "\"", "y", "\"", "}", "]">>
ResponseTexts ==
    {RespValid, RespEmptyArray, RespNoKeys, RespNumbers,
     RespNull, RespObject, RespEmptyObject, RespProseArray,
     RespBareKeys, RespProseColon, RespColon, RespUnquoted,
     RespProse, RespMixed, RespProseNoKeys, RespTwo}
ClientOutcomes == {ClientRaises} \cup {ClientReturns(t) : t \in ResponseTexts}
\* The outcomes tried in process_file: one response for each way an attempt can
\* end (cards of one or two pairs, no card, cards without the keys of a pair, a
\* value that cannot be stamped, a list stamped in part, a repaired array, the
\* review card), and the client raising.
PipelineTexts ==
    {RespValid, RespTwo, RespEmptyArray, RespNoKeys, RespNull, RespMixed,
     RespBareKeys, RespProse}
PipelineOutcomes == {ClientRaises} \cup {ClientReturns(t) : t \in PipelineTexts}

(***************************************************************************)
(* process_file as a state machine                                         *)
(***************************************************************************)
VARIABLES
    file_extension,   \* the extension of file_path
    pdf_lib,          \* the library extract_from_pdf ends up using
    pages,            \* the page texts of the PDF
    pc,               \* the position in process_file
    slides_content,   \* the slides extracted
    processed_slides, \* the number of slides the for loop has taken
    cleaned_slide,    \* the cleaned slide of the current iteration
    retry_count,
    success,
    all_cards,
    deck,             \* the notes of the deck built
    exception,        \* the exception that left process_file, "" when none
    num_cards,        \* the count process_file returns
    calls,            \* client calls made for the current slide
    fn_in,            \* argument of a function called on its own
    fn_out,           \* and its result
    api_key,          \* AnkiConverterApp: DEEPSEEK_API_KEY of the environment
    api_key_var,      \* the API key entry (shown when api_key is empty)
    file_path_var,
    deck_name_var,
    progress_var,
    status_var,
    button_state,     \* the state option of each ttk.Button
    dialog,           \* the last message box shown
    threads,          \* the conversion threads started, each with its position
    after_queue,      \* the callbacks scheduled with self.after(0, ...)
    tk_calls          \* which thread has made which calls that update the UI

vars ==
    << file_extension, pdf_lib, pages, pc, slides_content, processed_slides,
       cleaned_slide, retry_count, success, all_cards, deck, exception,
       num_cards, calls, fn_in, fn_out, api_key, api_key_var, file_path_var,
       deck_name_var, progress_var, status_var, button_state, dialog, threads,
       after_queue, tk_calls >>
gui_vars ==
    << api_key, api_key_var, file_path_var, deck_name_var, progress_var,
       status_var, button_state, dialog, threads, after_queue, tk_calls >>

\* A progress value base + i / total * span, kept as a fraction.
Percent(base, i, total, span) == [num |-> base * total + i * span, den |-> total]
\* A status or dialog text: its wording and the values formatted into it.
Message(text, args) == [text |-> text, args |-> args]

\* The widgets setup_ui creates that winfo_children and the button loops can
\* meet: each with its class and its master.
Widgets ==
    { [name |-> "main_frame", class |-> "Frame", master |-> "self"],
      [name |-> "file_frame", class |-> "LabelFrame", master |-> "main_frame"],
      [name |-> "browse_button", class |-> "Button", master |-> "file_frame"],
      [name |-> "deck_frame", class |-> "LabelFrame", master |-> "main_frame"],
      [name |-> "drop_frame", class |-> "LabelFrame", master |-> "main_frame"],
      [name |-> "progress_bar", class |-> "Progressbar", master |-> "main_frame"],
      [name |-> "convert_button", class |-> "Button", master |-> "main_frame"] }
Buttons == { w.name : w \in { x \in Widgets : x.class = "Button" } }
\* self.winfo_children(): the widgets whose master is the window itself.
winfo_children == { w \in Widgets : w.master = "self" }

\* file_path_var holds a path: its base name, its extension and (of the
\* document at that path) the number of pages; NoPath is the empty string.
NoPath == [base |-> "", ext |-> "", pages |-> 0]

\* The window as setup_ui leaves it, no conversion started.
WindowReady ==
    /\ api_key_var = ""
    /\ file_path_var = NoPath
    /\ deck_name_var = "AI-Enhanced Flashcards"
    /\ progress_var = Percent(0, 0, 1, 0)
    /\ status_var = Message("Ready to convert", <<>>)
    /\ button_state = [b \in Buttons |-> "normal"]
    /\ dialog = Message("", <<>>)
    /\ threads = <<>>
    /\ after_queue = <<>>
    /\ tk_calls = {}
\* The command-line mode: no window is used.
NoGui == api_key = "key" /\ WindowReady
inputs == << file_extension, pdf_lib, pages >>
fn_vars == << fn_in, fn_out >>

NoSlide == MkSlide(<<>>, <<>>, 0)

Init ==
    /\ file_extension \in {".pdf", ".txt"}
    /\ pdf_lib \in {"pymupdf", "pypdf2"}
    /\ pages \in PageLists
    /\ pc = "start"
    /\ slides_content = <<>>
    /\ processed_slides = 0
    /\ cleaned_slide = NoSlide
    /\ retry_count = 0
    /\ success = FALSE
    /\ all_cards = <<>>
    /\ deck = <<>>
    /\ exception = ""
    /\ num_cards = 0
    /\ calls = 0
    /\ fn_in = <<>>
    /\ fn_out = <<>>
    /\ NoGui

\* process_file up to the extraction: an unsupported extension raises ValueError.
Extract ==
    /\ pc = "start"
    /\ IF file_extension = ".pdf"
       THEN /\ slides_content' = extract_from_pdf(pdf_lib, pages)
            /\ pc' = "for_slide"
            /\ UNCHANGED exception
       ELSE /\ exception' = "ValueError"
            /\ pc' = "aborted"
            /\ UNCHANGED slides_content
    /\ UNCHANGED << inputs, gui_vars, processed_slides, cleaned_slide, retry_count, success,
                    all_cards, deck, num_cards, calls, fn_vars >>

\* The head of the for loop: the next slide is cleaned and either skipped
\* (continue) or taken into the retry loop.
NextSlide ==
    /\ pc = "for_slide"
    /\ processed_slides < Len(slides_content)
    /\ processed_slides' = processed_slides + 1
    /\ calls' = 0
    /\ \E sl \in {clean_slide_content(slides_content[processed_slides + 1])} :
          /\ cleaned_slide' = sl
          /\ IF has_meaningful_content(sl)
             THEN /\ pc' = "while_retry"
                  /\ retry_count' = 0
                  /\ success' = FALSE
             ELSE /\ pc' = "for_slide"
                  /\ UNCHANGED << retry_count, success >>
    /\ UNCHANGED << inputs, gui_vars, slides_content, all_cards, deck, exception, num_cards,
                    fn_vars >>

\* The items of the returned value that the stamping loop has stamped when it
\* raises or ends.
StampedBeforeRaise(cards, slide) ==
    IF cards.t = "list"
    THEN LET n == Only({ k \in 0..Len(cards.v) :
                          /\ \A i \in 1..k : cards.v[i].t = "dict"
                          /\ (k = Len(cards.v) \/ cards.v[k + 1].t # "dict") })
         IN  [i \in 1..n |-> StampCard(cards.v[i], slide)]
    ELSE <<>>
\* The iteration with each card appended to all_cards as soon as it is stamped:
\* an attempt that raises in the loop leaves the cards stamped before.
AttemptAppendWhileStamping(response) ==
    /\ pc = "while_retry"
    /\ retry_count < max_retries /\ ~success
    /\ calls' = calls + 1
    /\ \E r \in {ask_ai_for_cards(FullText(cleaned_slide), response)} :
       \E st \in {StampCards(r.cards, cleaned_slide)} :
          IF ~r.raised /\ ~st.raised
          THEN /\ all_cards' = all_cards \o st.cards
               /\ success' = TRUE
               /\ UNCHANGED retry_count
          ELSE /\ retry_count' = retry_count + 1
               /\ all_cards' = all_cards \o
                     (IF r.raised THEN <<>> ELSE StampedBeforeRaise(r.cards, cleaned_slide))
               /\ UNCHANGED success
    /\ UNCHANGED << inputs, gui_vars, pc, slides_content, processed_slides,
                    cleaned_slide, deck, exception, num_cards, fn_vars >>
\* One iteration of the while loop: a client call, the recovery of the cards,
\* the stamping and the extend; any exception counts one retry.
Attempt(response) ==
    /\ pc = "while_retry"
    /\ retry_count < max_retries /\ ~success
    /\ calls' = calls + 1
    /\ \E r \in {ask_ai_for_cards(FullText(cleaned_slide), response)} :
       \E st \in {StampCards(r.cards, cleaned_slide)} :
          IF ~r.raised /\ ~st.raised
          THEN /\ all_cards' = all_cards \o st.cards
               /\ success' = TRUE
               /\ UNCHANGED retry_count
          ELSE /\ retry_count' = retry_count + 1
               /\ UNCHANGED << all_cards, success >>
    /\ UNCHANGED << inputs, gui_vars, pc, slides_content, processed_slides, cleaned_slide,
                    deck, exception, num_cards, fn_vars >>

\* The exit of the while loop and the rest of the for body: the basic card
\* when no attempt succeeded.
FinishSlide ==
    /\ pc = "while_retry"
    /\ ~(retry_count < max_retries /\ ~success)
    /\ all_cards' = all_cards \o FallbackCards(cleaned_slide, success)
    /\ pc' = "for_slide"
    /\ UNCHANGED << inputs, gui_vars, slides_content, processed_slides, cleaned_slide,
                    retry_count, success, deck, exception, num_cards, calls,
                    fn_vars >>

\* The for loop is exhausted: generate_flashcards_with_deepseek returns.
ReturnCards ==
    /\ pc = "for_slide"
    /\ processed_slides = Len(slides_content)
    /\ pc' = "create_deck"
    /\ UNCHANGED << inputs, gui_vars, slides_content, processed_slides, cleaned_slide,
                    retry_count, success, all_cards, deck, exception, num_cards,
                    calls, fn_vars >>

\* create_anki_deck; its KeyError is not caught in process_file.
CreateDeck ==
    /\ pc = "create_deck"
    /\ \E d \in {create_anki_deck(all_cards)} :
          IF d.raised
          THEN /\ exception' = "KeyError"
               /\ pc' = "aborted"
               /\ UNCHANGED deck
          ELSE /\ deck' = d.notes
               /\ pc' = "write"
               /\ UNCHANGED exception
    /\ UNCHANGED << inputs, gui_vars, slides_content, processed_slides, cleaned_slide,
                    retry_count, success, all_cards, num_cards, calls, fn_vars >>

\* The package is written and process_file returns len(cards).
WriteFile ==
    /\ pc = "write"
    /\ num_cards' = Len(all_cards)
    /\ pc' = "done"
    /\ UNCHANGED << inputs, gui_vars, slides_content, processed_slides, cleaned_slide,
                    retry_count, success, all_cards, deck, exception, calls,
                    fn_vars >>

AttemptAny == \E response \in PipelineOutcomes : Attempt(response)

Next ==
    \/ Extract
    \/ NextSlide
    \/ AttemptAny
    \/ FinishSlide
    \/ ReturnCards
    \/ CreateDeck
    \/ WriteFile

Spec == Init /\ [][Next]_vars

\* The client call returns or raises, and the steps of process_file follow one
\* another: every enabled step is eventually taken.
FairSpec == Spec /\ WF_vars(Next)

(***************************************************************************)
(* _ask_ai_for_cards and clean_slide_content called on their own           *)
(***************************************************************************)
Idle ==
    /\ file_extension = ".pdf"
    /\ pdf_lib = "pymupdf"
    /\ pages = <<>>
    /\ slides_content = <<>>
    /\ processed_slides = 0
    /\ cleaned_slide = NoSlide
    /\ retry_count = 0
    /\ success = FALSE
    /\ all_cards = <<>>
    /\ deck = <<>>
    /\ exception = ""
    /\ num_cards = 0
    /\ calls = 0
pipeline_vars ==
    << file_extension, pdf_lib, pages, slides_content, processed_slides,
       cleaned_slide, retry_count, success, all_cards, deck, exception,
       num_cards, calls >>

\* The slide texts generate_flashcards_with_deepseek passes for the sample pages.
SlideTexts ==
    { FullText(clean_slide_content(sl)) :
        sl \in { s \in { SlideFromPyMuPDF(p, 1) : p \in PageTexts }
                       \cup { SlideFromPyPDF2(p, 1) : p \in PageTexts } :
                  has_meaningful_content(clean_slide_content(s)) } }

InitAsk ==
    /\ Idle
    /\ NoGui
    /\ pc = "ask_call"
    /\ fn_in \in [slide_text : SlideTexts, response : ClientOutcomes]
    /\ fn_out = <<>>
AskCall ==
    /\ pc = "ask_call"
    /\ fn_out' = ask_ai_for_cards(fn_in.slide_text, fn_in.response)
    /\ pc' = "ask_return"
    /\ UNCHANGED << pipeline_vars, gui_vars, fn_in >>
SpecAsk == InitAsk /\ [][AskCall]_vars

\* 'June 1, 1999 Vi 5'
TitleDate ==
    <<"J", "u", "n", "e", " ", "1", ",", " ", "1", "9", "9", "9", " ", "V",
      "i", " ", "5">>
\* '12'
TitleNumber ==
    <<"1", "2">>
\* 'Slide 3'
TitleSlide ==
    <<"S", "l", "i", "d", "e", " ", "3">>
\* 'Slide 3 x'
TitleSlideText ==
    <<"S", "l", "i", "d", "e", " ", "3", " ", "x">>
\* 'Heat'
TitlePlain ==
    <<"H", "e", "a", "t">>
\* ''
TitleEmpty ==
    <<>>
\* '12a'
TitleMixed ==
    <<"1", "2", "a">>
\* '12\n'
TitleNumberNl ==
    <<"1", "2", "\n">>
\* ' 12'
TitleIndented ==
    <<" ", "1", "2">>
CleanTitles ==
    {TitleDate, TitleNumber, TitleSlide, TitleSlideText,
     TitlePlain, TitleEmpty, TitleMixed, TitleNumberNl,
     TitleIndented}
\* ''
ContentEmpty ==
    <<>>
\* 'Heat\nxy'
ContentTwoLines ==
    <<"H", "e", "a", "t", "\n", "x", "y">>
\* '\nHeat'
ContentBlankFirst ==
    <<"\n", "H", "e", "a", "t">>
\* ' Heat \n xy \n'
ContentPadded ==
    <<" ", "H", "e", "a", "t", " ", "\n", " ", "x", "y", " ", "\n">>
\* '  \nHeat'
ContentSpacesFirst ==
    <<" ", " ", "\n", "H", "e", "a", "t">>
\* '5\nx'
ContentNumberFirst ==
    <<"5", "\n", "x">>
\* 'Slide 2\nab'
ContentSlideFirst ==
    <<"S", "l", "i", "d", "e", " ", "2", "\n", "a", "b">>
\* '12\nHeat\n\nxy'
ContentThree ==
    <<"1", "2", "\n", "H", "e", "a", "t", "\n", "\n", "x", "y">>
CleanContents ==
    {ContentEmpty, ContentTwoLines, ContentBlankFirst, ContentPadded,
     ContentSpacesFirst, ContentNumberFirst, ContentSlideFirst, ContentThree}

InitClean ==
    /\ Idle
    /\ NoGui
    /\ pc = "clean_call"
    /\ fn_in \in [title : CleanTitles, content : CleanContents, slide_num : {1, 12}]
    /\ fn_out = <<>>
CleanCall ==
    /\ pc = "clean_call"
    /\ fn_out' = clean_slide_content(fn_in)
    /\ pc' = "clean_return"
    /\ UNCHANGED << pipeline_vars, gui_vars, fn_in >>
SpecClean == InitClean /\ [][CleanCall]_vars

(***************************************************************************)
(* AnkiConverterApp: the window, its handlers and the conversion threads   *)
(***************************************************************************)
\* The conversions started in one run of the window.
MaxThreads == 2

\* The files chosen in the dialog.
SampleFiles ==
    { [base |-> "deck", ext |-> ".pdf", pages |-> 1],
      [base |-> "notes", ext |-> ".txt", pages |-> 0] }
SampleDeckNames == {"", "Physics"}
\* The card counts process_file returns in the samples.
SampleCardCounts == {0, 2}

InitGui ==
    /\ Idle
    /\ pc = "mainloop"
    /\ fn_in = <<>>
    /\ fn_out = <<>>
    /\ api_key \in {"", "key"}
    /\ WindowReady

\* A call that updates the UI, made by thread ("ui" or "worker").
TkCalls(thread, names) == { [thread |-> thread, call |-> n] : n \in names }
\* update_progress(value, message) as run by thread.
update_progress(thread, value, message) ==
    /\ progress_var' = value
    /\ status_var' = message
    /\ tk_calls' = tk_calls \cup
          TkCalls(thread, {"progress_var.set", "status_var.set", "update_idletasks"})

\* The buttons the two loops over self.winfo_children() configure.
ButtonsOfWindow ==
    { w.name : w \in { x \in winfo_children : x.class = "Button" } }
ConfigureButtons(state) ==
    [b \in Buttons |-> IF b \in ButtonsOfWindow THEN state ELSE button_state[b]]

\* browse_file: the file dialog returns a path, or nothing when cancelled.
browse_file(file_path) ==
    /\ pc = "mainloop"
    /\ IF file_path # NoPath
       THEN /\ file_path_var' = file_path
            /\ deck_name_var' = file_path.base \o " Flashcards"
       ELSE UNCHANGED << file_path_var, deck_name_var >>
    /\ UNCHANGED << pipeline_vars, pc, fn_vars, api_key, api_key_var, progress_var,
                    status_var, button_state, dialog, threads, after_queue,
                    tk_calls >>
\* The user types into the deck name entry.
EditDeckName(name) ==
    /\ pc = "mainloop"
    /\ deck_name_var' = name
    /\ UNCHANGED << pipeline_vars, pc, fn_vars, api_key, api_key_var,
                    file_path_var, progress_var, status_var, button_state, dialog,
                    threads, after_queue, tk_calls >>
\* The user types into the API key entry, which exists when the environment
\* gave no key.
EditApiKey(key) ==
    /\ pc = "mainloop"
    /\ api_key = ""
    /\ api_key_var' = key
    /\ UNCHANGED << pipeline_vars, pc, fn_vars, api_key, file_path_var,
                    deck_name_var, progress_var, status_var, button_state, dialog,
                    threads, after_queue, tk_calls >>

\* messagebox.showerror / showinfo on the UI thread.
ShowDialog(kind, message) ==
    /\ dialog' = message
    /\ tk_calls' = tk_calls \cup TkCalls("ui", {kind})

\* convert_to_anki, the command of the convert button (a disabled button does
\* not run its command): the three checks, the button loop, the reset of the
\* progress and the start of the thread.
convert_to_anki ==
    /\ pc = "mainloop"
    /\ button_state["convert_button"] = "normal"
    /\ \E key \in {IF api_key # "" THEN api_key ELSE api_key_var} :
          IF file_path_var = NoPath
          THEN /\ ShowDialog("showerror",
                             Message("Please select a presentation file.", <<>>))
               /\ UNCHANGED << progress_var, status_var, button_state, threads >>
          ELSE IF deck_name_var = ""
          THEN /\ ShowDialog("showerror", Message("Please enter a deck name.", <<>>))
               /\ UNCHANGED << progress_var, status_var, button_state, threads >>
          ELSE IF key = ""
          THEN /\ ShowDialog("showerror",
                             Message("Deepseek API key is required.", <<>>))
               /\ UNCHANGED << progress_var, status_var, button_state, threads >>
          ELSE /\ Len(threads) < MaxThreads
               /\ button_state' = ConfigureButtons("disabled")
               /\ progress_var' = Percent(0, 0, 1, 0)
               /\ status_var' = Message("Starting conversion...", <<>>)
               /\ tk_calls' = tk_calls \cup
                     TkCalls("ui", {"progress_var.set", "status_var.set"}
                                   \cup {"configure" : b \in ButtonsOfWindow})
               /\ threads' = Append(threads,
                     [pc |-> "process_file", file_path |-> file_path_var,
                      deck_name |-> deck_name_var, k |-> 0, num_cards |-> 0,
                      e |-> ""])
               /\ UNCHANGED dialog
    /\ UNCHANGED << pipeline_vars, pc, fn_vars, api_key, api_key_var,
                    file_path_var, deck_name_var, after_queue >>

\* The UI thread runs the oldest callback scheduled with self.after(0, ...):
\* a message box, or enable_buttons.
RunAfterCallback ==
    /\ pc = "mainloop"
    /\ after_queue # <<>>
    /\ after_queue' = Tail(after_queue)
    /\ IF Head(after_queue).call = "enable_buttons"
       THEN /\ button_state' = ConfigureButtons("normal")
            /\ tk_calls' = tk_calls \cup
                  TkCalls("ui", {"configure" : b \in ButtonsOfWindow})
            /\ UNCHANGED dialog
       ELSE /\ ShowDialog(Head(after_queue).call, Head(after_queue).message)
            /\ UNCHANGED button_state
    /\ UNCHANGED << pipeline_vars, pc, fn_vars, api_key, api_key_var,
                    file_path_var, deck_name_var, progress_var, status_var,
                    threads >>

\* The progress_callback calls of process_file on file, in order, when it runs
\* to its end and returns n_cards.
ProgressCalls(file, n_cards) ==
    << [value |-> Percent(10, 0, 1, 0),
        message |-> Message("Extracting slides...", <<>>)] >>
    \o [i \in 1..file.pages |->
          [value |-> Percent(10, i, file.pages, 20),
           message |-> Message("Extracting slide {i}/{total_pages}...",
                               <<i, file.pages>>)]]
    \o << [value |-> Percent(30, 0, 1, 0),
           message |-> Message("Generating flashcards with DeepSeek...", <<>>)] >>
    \o [i \in 1..file.pages |->
          [value |-> Percent(30, i, file.pages, 50),
           message |-> Message("Generating flashcards for slide {slide_num}/{total_slides}...",
                               <<i, file.pages>>)]]
    \o << [value |-> Percent(80, 0, 1, 0),
           message |-> Message("Creating Anki deck...", <<>>)],
          [value |-> Percent(90, 0, 1, 0),
           message |-> Message("Saving Anki package to {output_path}...",
                               <<file.base>>)],
          [value |-> Percent(100, 0, 1, 0),
           message |-> Message("Created {len(cards)} AI-enhanced flashcards successfully!",
                               <<n_cards>>)] >>
\* The number of calls made when process_file reaches create_anki_deck.
CallsBeforeDeck(file) == 2 * file.pages + 3

\* run_conversion in process_file: the next progress_callback, which is
\* self.update_progress and runs in the conversion thread itself.
ProgressCallback(t) ==
    /\ pc = "mainloop"
    /\ threads[t].pc = "process_file"
    /\ threads[t].k < CallsBeforeDeck(threads[t].file_path) + 2
    /\ ~(threads[t].k = 1 /\ threads[t].file_path.ext # ".pdf")
    /\ \E n \in (IF threads[t].k = CallsBeforeDeck(threads[t].file_path) + 1
                 THEN SampleCardCounts ELSE {threads[t].num_cards}) :
       \E c \in {ProgressCalls(threads[t].file_path, n)[threads[t].k + 1]} :
          /\ update_progress("worker", c.value, c.message)
          /\ threads' = [threads EXCEPT ![t].k = @ + 1, ![t].num_cards = n]
    /\ UNCHANGED << pipeline_vars, pc, fn_vars, api_key, api_key_var,
                    file_path_var, deck_name_var, button_state, dialog,
                    after_queue >>
\* process_file raises: ValueError for a file that is no .pdf, KeyError when
\* create_anki_deck meets a card without its keys.
ProcessFileRaises(t) ==
    /\ pc = "mainloop"
    /\ threads[t].pc = "process_file"
    /\ \/ /\ threads[t].k = 1
          /\ threads[t].file_path.ext # ".pdf"
          /\ threads' = [threads EXCEPT ![t].pc = "except", ![t].e = "ValueError"]
       \/ /\ threads[t].k = CallsBeforeDeck(threads[t].file_path)
          /\ threads' = [threads EXCEPT ![t].pc = "except", ![t].e = "KeyError"]
    /\ UNCHANGED << pipeline_vars, pc, fn_vars, api_key, api_key_var,
                    file_path_var, deck_name_var, progress_var, status_var,
                    button_state, dialog, after_queue, tk_calls >>
\* process_file returned: the success message box is scheduled.
ProcessFileReturns(t) ==
    /\ pc = "mainloop"
    /\ threads[t].pc = "process_file"
    /\ threads[t].k = CallsBeforeDeck(threads[t].file_path) + 2
    /\ after_queue' = Append(after_queue,
          [call |-> "showinfo",
           message |-> Message("Successfully created {num_cards} flashcards in: {output_path}",
                               <<threads[t].num_cards, threads[t].file_path.base>>)])
    /\ threads' = [threads EXCEPT ![t].pc = "reenable"]
    /\ UNCHANGED << pipeline_vars, pc, fn_vars, api_key, api_key_var,
                    file_path_var, deck_name_var, progress_var, status_var,
                    button_state, dialog, tk_calls >>
\* The except clause: the error message box is scheduled ...
ExceptScheduleError(t) ==
    /\ pc = "mainloop"
    /\ threads[t].pc = "except"
    /\ after_queue' = Append(after_queue,
          [call |-> "showerror", message |-> Message(threads[t].e, <<>>)])
    /\ threads' = [threads EXCEPT ![t].pc = "except_progress"]
    /\ UNCHANGED << pipeline_vars, pc, fn_vars, api_key, api_key_var,
                    file_path_var, deck_name_var, progress_var, status_var,
                    button_state, dialog, tk_calls >>
\* ... and self.update_progress(0, "Conversion failed.") is called in the
\* conversion thread.
ExceptUpdateProgress(t) ==
    /\ pc = "mainloop"
    /\ threads[t].pc = "except_progress"
    /\ update_progress("worker", Percent(0, 0, 1, 0), Message("Conversion failed.", <<>>))
    /\ threads' = [threads EXCEPT ![t].pc = "reenable"]
    /\ UNCHANGED << pipeline_vars, pc, fn_vars, api_key, api_key_var,
                    file_path_var, deck_name_var, button_state, dialog,
                    after_queue >>
\* The last statement of run_conversion: enable_buttons is scheduled and the
\* thread ends.
ScheduleEnableButtons(t) ==
    /\ pc = "mainloop"
    /\ threads[t].pc = "reenable"
    /\ after_queue' = Append(after_queue,
          [call |-> "enable_buttons", message |-> Message("", <<>>)])
    /\ threads' = [threads EXCEPT ![t].pc = "finished"]
    /\ UNCHANGED << pipeline_vars, pc, fn_vars, api_key, api_key_var,
                    file_path_var, deck_name_var, progress_var, status_var,
                    button_state, dialog, tk_calls >>

UserAction ==
    \/ \E file_path \in SampleFiles \cup {NoPath} : browse_file(file_path)
    \/ \E name \in SampleDeckNames : EditDeckName(name)
    \/ \E key \in {"", "key"} : EditApiKey(key)
    \/ convert_to_anki
ThreadStep(t) ==
    \/ ProgressCallback(t)
    \/ ProcessFileRaises(t)
    \/ ProcessFileReturns(t)
    \/ ExceptScheduleError(t)
    \/ ExceptUpdateProgress(t)
    \/ ScheduleEnableButtons(t)
NextGui ==
    \/ UserAction
    \/ RunAfterCallback
    \/ \E t \in 1..Len(threads) : ThreadStep(t)
SpecGui == InitGui /\ [][NextGui]_vars

(***************************************************************************)
(* Properties                                                              *)
(***************************************************************************)
Returned == pc = "ask_return" /\ ~fn_out.raised
\* A Python value that is a non-empty list of dicts with 'question' and 'answer'.
IsPairList(v) ==
    /\ v.t = "list"
    /\ Len(v.v) > 0
    /\ \A i \in 1..Len(v.v) :
          v.v[i].t = "dict" /\ {KQuestion, KAnswer} \subseteq DOMAIN v.v[i].v

\* C1: whatever text the client returns, _ask_ai_for_cards returns a non-empty
\* list of {question, answer} pairs (and it raises only when the client does).
C1_AlwaysNonEmptyPairs ==
    pc = "ask_return" =>
        /\ fn_out.raised = fn_in.response.raised
        /\ ~fn_out.raised => IsPairList(fn_out.cards)

\* The slide the for loop has just finished passed the gate.
SlideFinished ==
    /\ pc = "for_slide"
    /\ processed_slides >= 1
    /\ (Len(cleaned_slide.title) > 3 \/ Len(cleaned_slide.content) > 10)

\* C2: a slide that passed the gate and whose 3 attempts all failed leaves
\* exactly one fallback card as the last card of all_cards: question "Explain
\* the concept of: {title}", answer the content or the placeholder, context
\* marked auto-generated.
C2_FallbackCardForEveryFailedSlide ==
    (SlideFinished /\ ~success) =>
        /\ all_cards # <<>>
        /\ all_cards[Len(all_cards)] =
              PyDict((KQuestion :> PyStr(ExplainPrefix \o cleaned_slide.title))
                     @@ (KAnswer :> PyStr(IF cleaned_slide.content # <<>>
                                          THEN cleaned_slide.content
                                          ELSE ReviewTheSlide))
                     @@ (KSlide :> PyStr(SlideLabel(cleaned_slide.slide_num)))
                     @@ (KContext :> PyStr(AutoGenerated)))

\* C4: no response text makes process_file abort: the only exception that
\* leaves it is the ValueError of an unsupported file type.
C4_ResponseNeverFatal ==
    pc = "aborted" => (exception = "ValueError" /\ file_extension # ".pdf")

Terminated == pc \in {"done", "aborted"}

\* C3: for a slide that passed the gate the client is called at least once and
\* at most 3 times, never again after an attempt succeeded; the next slide is
\* started only when the attempts of this one are over (one succeeded, or 3
\* were made), and process_file comes to an end.
C3_AttemptsBounded ==
    /\ [](calls <= 3)
    /\ [](SlideFinished => calls >= 1)
    /\ [][calls' = calls + 1 => (pc = "while_retry" /\ ~success)]_vars
    /\ [][(pc = "while_retry" /\ pc' # "while_retry") => (success \/ calls = 3)]_vars
    /\ [][processed_slides' # processed_slides => pc = "for_slide"]_vars
    /\ <>Terminated
\* A slide finished by an attempt that succeeded after earlier ones failed.
C3_Witness ==
    SlideFinished /\ success /\ calls = 2 /\ processed_slides = 2

\* The label of card c names slide n.
LabelledFor(c, n) == KSlide \in DOMAIN c.v /\ c.v[KSlide] = PyStr(SlideLabel(n))

\* C5: the gate is evaluated on the cleaned slide.  A slide whose cleaned title
\* has length <= 3 and whose cleaned content has length <= 10 causes no client
\* call and contributes no card; a slide with a cleaned title of length >= 4
\* or a cleaned content of length >= 11 enters the retry loop and has the
\* client called.
C5_MeaningfulContentGate ==
    (processed_slides >= 1 /\ pc \in {"for_slide", "while_retry"}) =>
        /\ cleaned_slide.slide_num = slides_content[processed_slides].slide_num
        /\ IF Len(cleaned_slide.title) <= 3 /\ Len(cleaned_slide.content) <= 10
           THEN /\ pc = "for_slide"
                /\ calls = 0
                /\ \A i \in 1..Len(all_cards) :
                      ~LabelledFor(all_cards[i], cleaned_slide.slide_num)
           ELSE pc = "for_slide" => calls >= 1
\* A slide skipped because its cleaned title is short although the extracted
\* title was not, after a slide that gave a card with empty content.
C5_Witness ==
    /\ pc = "for_slide"
    /\ processed_slides = 2
    /\ Len(slides_content[2].title) > 3
    /\ Len(cleaned_slide.title) <= 3 /\ Len(cleaned_slide.content) <= 10
    /\ slides_content[1].content = <<>>
    /\ all_cards # <<>>

\* C6: every card of all_cards has a 'slide' field "Slide N", N the slide_num
\* of a slide already taken whose cleaned form has a title longer than 3 or a
\* content longer than 10.
C6_EveryCardLabelled ==
    \A i \in 1..Len(all_cards) :
        \E n \in 1..processed_slides :
            /\ LabelledFor(all_cards[i], slides_content[n].slide_num)
            /\ \E sl \in {clean_slide_content(slides_content[n])} :
                  Len(sl.title) > 3 \/ Len(sl.content) > 10
\* A fallback card and a card without the keys of a pair, of different slides.
C6_Witness ==
    /\ Len(all_cards) = 2
    /\ all_cards[1].v[KContext] = PyStr(AutoGenerated)
    /\ KQuestion \notin DOMAIN all_cards[2].v
    /\ LabelledFor(all_cards[1], 1)
    /\ LabelledFor(all_cards[2], 2)

\* The title matches one of the three boilerplate patterns.
MatchesHeader(title) ==
    \E k \in 1..Len(header_patterns) : ReMatch(header_patterns[k], title) # <<>>
\* The position of the first line break of s (Len(s) + 1 when it has none), the
\* line before it and the text after it.
FirstBreak(s) ==
    IF \E i \in 1..Len(s) : s[i] = NL
    THEN CHOOSE i \in 1..Len(s) : s[i] = NL /\ \A j \in 1..(i - 1) : s[j] # NL
    ELSE Len(s) + 1
FirstLine(s) == SubSeq(s, 1, FirstBreak(s) - 1)
AfterFirstLine(s) == SubSeq(s, FirstBreak(s) + 1, Len(s))
\* The first line of s that is not blank (s has one), and the text after it.
RECURSIVE FirstNonEmptyLine(_), AfterFirstNonEmptyLine(_)
FirstNonEmptyLine(s) ==
    IF Strip(FirstLine(s)) # <<>> THEN FirstLine(s)
    ELSE FirstNonEmptyLine(AfterFirstLine(s))
AfterFirstNonEmptyLine(s) ==
    IF Strip(FirstLine(s)) # <<>> THEN AfterFirstLine(s)
    ELSE AfterFirstNonEmptyLine(AfterFirstLine(s))

\* C7 as stated: when the title matches a boilerplate pattern and the content
\* has a line that is not blank, the output title is the first such line and
\* the output content is the text after it (both without surrounding white
\* space); when the title matches no pattern the output is the input;
\* slide_num is never changed.
C7_PromotesFirstNonEmptyLine ==
    pc = "clean_return" =>
        /\ fn_out.slide_num = fn_in.slide_num
        /\ ~MatchesHeader(fn_in.title) => fn_out = fn_in
        /\ (MatchesHeader(fn_in.title) /\ Strip(fn_in.content) # <<>>) =>
              /\ fn_out.title = Strip(FirstNonEmptyLine(fn_in.content))
              /\ fn_out.content = Strip(AfterFirstNonEmptyLine(fn_in.content))

\* C7 amended: when the title matches a boilerplate pattern and the FIRST line
\* of the content is not blank, the output title is that line and the output
\* content is the text after it (both without surrounding white space), even
\* when the promoted line matches a pattern itself; in every other case (no
\* pattern matches, or the first line is blank) title and content are those of
\* the input; slide_num is never changed.
C7_PromotesFirstLine ==
    pc = "clean_return" =>
        /\ fn_out.slide_num = fn_in.slide_num
        /\ IF MatchesHeader(fn_in.title) /\ Strip(FirstLine(fn_in.content)) # <<>>
           THEN /\ fn_out.title = Strip(FirstLine(fn_in.content))
                /\ fn_out.content = Strip(AfterFirstLine(fn_in.content))
           ELSE fn_out = fn_in
\* A promoted first line that matches a pattern itself and is not replaced by
\* the line after it.
C7_Witness ==
    /\ pc = "clean_return"
    /\ fn_in.title = TitleDate
    /\ fn_in.content = ContentThree
    /\ fn_out.title = TitleNumber
    /\ MatchesHeader(fn_out.title)
    /\ fn_out.content = AfterFirstLine(ContentThree)

\* C8: when the response text does not parse as JSON, has no bracketed
\* substring that parses after the repairs, and neither scan finds a
\* question/answer fragment, _ask_ai_for_cards returns exactly one pair:
\* question "Review this slide", answer the slide text it was called with.
C8_ReviewCardEchoesSlideText ==
    (/\ Returned
     /\ ~JsonLoads(fn_in.response.text).ok
     /\ ~ExtractJsonArray(fn_in.response.text).ok
     /\ PairedScan(fn_in.response.text) = <<>>
     /\ LenientScan(fn_in.response.text) = <<>>) =>
        fn_out.cards =
            PyList(<< PyDict((KQuestion :> PyStr(ReviewQuestion))
                             @@ (KAnswer :> PyStr(fn_in.slide_text))) >>)
\* A prose response answered with the review card of a different slide text.
C8_Witness ==
    /\ Returned
    /\ fn_in.response.text = RespProse
    /\ fn_in.slide_text # RespProse
    /\ fn_out.stages = <<1, 2, 3, 4, 5>>
    /\ fn_out.cards.v[1].v[KAnswer] = PyStr(fn_in.slide_text)

\* C9: the deck create_anki_deck returns has one note per card, the i-th note
\* made of the question, answer, slide label and context ('' when the card has
\* none) of the i-th card.
C9_DeckMirrorsCards ==
    pc \in {"write", "done"} =>
        /\ Len(deck) = Len(all_cards)
        /\ \A i \in 1..Len(all_cards) :
              /\ deck[i][1] = all_cards[i].v[KQuestion]
              /\ deck[i][2] = all_cards[i].v[KAnswer]
              /\ deck[i][3] = all_cards[i].v[KSlide]
              /\ deck[i][4] = IF KContext \in DOMAIN all_cards[i].v
                              THEN all_cards[i].v[KContext] ELSE PyStr(<<>>)
\* A written deck of two different notes.
C9_Witness ==
    /\ pc = "done"
    /\ Len(deck) = 2
    /\ deck[1] # deck[2]

\* C10: the recovery stages run in order 1, 2, 3, ... without a gap; a response
\* that parses as JSON is returned as parsed after stage 1 alone; stage 2 runs
\* only when that parse failed, stage 3 only when stage 2 gave nothing, stage 4
\* only when the paired scan of stage 3 found nothing.
C10_StagesInOrder ==
    Returned =>
        /\ \A i \in 1..Len(fn_out.stages) : fn_out.stages[i] = i
        /\ Len(fn_out.stages) >= 1
        /\ JsonLoads(fn_in.response.text).ok =>
              /\ fn_out.stages = <<1>>
              /\ fn_out.cards = JsonLoads(fn_in.response.text).val
        /\ Len(fn_out.stages) >= 2 => ~JsonLoads(fn_in.response.text).ok
        /\ Len(fn_out.stages) >= 3 => ~ExtractJsonArray(fn_in.response.text).ok
        /\ Len(fn_out.stages) >= 4 => PairedScan(fn_in.response.text) = <<>>
\* A response returned as parsed at stage 1 that the key-quoting repair of
\* stage 2 would have made unparseable.
C10_Witness ==
    /\ Returned
    /\ fn_in.response.text = RespColon
    /\ fn_out.stages = <<1>>
    /\ IsPairList(fn_out.cards)
    /\ ~ExtractJsonArray(RespColon).ok

\* C11: every call that updates the UI (the progress value, the status
\* message, a message box, the state of a button) is made by the UI thread,
\* never by a conversion thread.
C11_UiUpdatesOnUiThread ==
    \A c \in tk_calls : c.thread = "ui"

\* The conversion threads that have not ended.
Running == { t \in 1..Len(threads) : threads[t].pc # "finished" }
\* A conversion is under way: a thread runs, or its enable_buttons is still to
\* be run by the UI thread.
Converting ==
    \/ Running # {}
    \/ \E i \in 1..Len(after_queue) : after_queue[i].call = "enable_buttons"

\* C12: at most one conversion thread runs at any time, and the convert button
\* is disabled from the start of a conversion until its enable_buttons has run.
C12_SingleConversionThread ==
    /\ Cardinality(Running) <= 1
    /\ Converting => button_state["convert_button"] = "disabled"

\* Card c has the label of the slide the for loop is at.
OfCurrentSlide(c) == c.t = "dict" /\ LabelledFor(c, cleaned_slide.slide_num)
\* all_cards has grown by one or more cards, each of the current slide.
CardsAppended ==
    /\ Len(all_cards') > Len(all_cards)
    /\ SubSeq(all_cards', 1, Len(all_cards)) = all_cards
    /\ \A i \in (Len(all_cards) + 1)..Len(all_cards') : OfCurrentSlide(all_cards'[i])

\* C13: an attempt that fails (the client, the recovery or the stamping raises)
\* leaves all_cards as it was; all_cards changes only by the cards of the
\* first attempt of a slide that succeeds or by the one fallback card of a
\* slide without success, so a slide gives the cards of one attempt, the
\* fallback card, or nothing; the cards are in slide order.
C13_FailedAttemptLeavesCardsUnchanged ==
    /\ [][(pc = "while_retry" /\ retry_count' = retry_count + 1) =>
             (all_cards' = all_cards /\ ~success')]_vars
    /\ [][all_cards' # all_cards =>
             /\ pc = "while_retry" /\ ~success
             /\ CardsAppended
             /\ \/ success' /\ calls' = calls + 1 /\ retry_count' = retry_count
                \/ /\ pc' = "for_slide"
                   /\ retry_count = max_retries
                   /\ Len(all_cards') = Len(all_cards) + 1]_vars
    /\ [](\A i, j \in 1..Len(all_cards) : \A n, m \in 1..Len(slides_content) :
             (i < j /\ LabelledFor(all_cards[i], n) /\ LabelledFor(all_cards[j], m))
                => n <= m)
\* The second slide after two failed attempts, the two cards of the first
\* slide being all of all_cards.
C13_Witness ==
    /\ pc = "while_retry"
    /\ processed_slides = 2
    /\ retry_count = 2
    /\ Len(all_cards) = 2
    /\ LabelledFor(all_cards[1], 1) /\ LabelledFor(all_cards[2], 1)
====
